---- MODULE Spec2Model ----
(***************************************************************************)
(* A model of app.py, the Streamlit e-commerce dashboard.                  *)
(*                                                                         *)
(* The script is run top to bottom once per user interaction.  get_data    *)
(* (wrapped in st.cache_data) loads or synthesises the order table, the   *)
(* script derives revenue / order_day / order_hour, reads the two sidebar  *)
(* widgets, filters, and either stops with a warning or computes four      *)
(* KPIs and four grouped tables.                                           *)
(*                                                                         *)
(* Modelling conventions                                                   *)
(*  - a DataFrame is a sequence of records (one per row, one field per     *)
(*    column);                                                             *)
(*  - a timestamp is the number of whole hours since 2024-01-01 00:00 (the *)
(*    script only ever reads .dt.date and .dt.hour of it); a calendar day  *)
(*    is the number of days since 2024-01-01;                              *)
(*  - a CSV file is a header (sequence of column names) and a sequence of  *)
(*    lines, each line the sequence of the formatted fields;               *)
(*  - the processes of Procs are separate Python processes running the     *)
(*    script in the same working directory: each has its own st.cache_data *)
(*    store, the file system is shared.                                    *)
(***************************************************************************)
EXTENDS Integers, Sequences, FiniteSets, TLC

(***************************************************************************)
(* Bounds of the model.                                                    *)
(***************************************************************************)
\* longest dataset file present before the first run
MaxFileRows == 2
\* the unseeded numpy generator is one of the streams 0..MaxSeed
MaxSeed == 1
\* the user picks the last day, or a day at most this far from the first
MaxPickOffset == 1
\* a process runs the body of get_data at most this often
MaxBodyRuns == 2

(***************************************************************************)
(* Program constants.                                                      *)
(***************************************************************************)
\* range(1000, 1500), and the size argument of every np.random call
NumRows == 500
\* range(1000, 1500)
FirstOrderId == 1000
\* .head(5)
TopN == 5
\* a day has 24 hours (.dt.date / .dt.hour)
HoursPerDay == 24

\* the Python processes that run the script in the same working directory
Procs == {1, 2}
\* the session whose whole script run is followed
Main == CHOOSE p \in Procs : \A q \in Procs : p <= q

filename == "ecommerce_with_repeating.csv"
folder == "data"
\* os.path.join(folder, filename)
target_path == "data/ecommerce_with_repeating.csv"
\* possible_paths, in probing order
possible_paths == <<target_path, filename>>

\* the keys of the `data` dict, in insertion order: the columns of the frame
ColumnOrder ==
  <<"order_id", "user_id", "product_id", "product_name", "category", "price",
    "quantity", "order_date", "rating", "is_repeating_customer">>

\* the list indexed by np.random.randint(0, 4, 500)
CategoryList == <<"Electronics", "Fashion", "Home", "Beauty">>

\* f"Product {i}" for i in 1..10
ProductNameOf == <<"Product 1", "Product 2", "Product 3", "Product 4", "Product 5",
                   "Product 6", "Product 7", "Product 8", "Product 9", "Product 10">>

\* groupby sorts its keys: strings in lexicographic order
SortedProductNames == <<"Product 1", "Product 10", "Product 2", "Product 3", "Product 4",
                        "Product 5", "Product 6", "Product 7", "Product 8", "Product 9">>
SortedCategories == <<"Beauty", "Electronics", "Fashion", "Home">>

Range(s) == {s[i] : i \in 1..Len(s)}

IndexOf(s, x) == CHOOSE i \in 1..Len(s) : s[i] = x

(***************************************************************************)
(* CSV conversion: DataFrame.to_csv(index=False) and                       *)
(* pd.read_csv(parse_dates=["order_date"]).                                *)
(***************************************************************************)
\* a timestamp is written as date and time of day, a bool as True / False
FormatField(col, v) ==
  CASE col = "order_date" -> <<v \div HoursPerDay, v % HoursPerDay>>
    [] col = "is_repeating_customer" -> (IF v THEN "True" ELSE "False")
    [] OTHER -> v

ParseField(col, t) ==
  CASE col = "order_date" -> t[1] * HoursPerDay + t[2]
    [] col = "is_repeating_customer" -> (t = "True")
    [] OTHER -> t

NoFile == [exists |-> FALSE, header |-> <<>>, lines |-> <<>>]
\* a file just opened for writing: it exists and holds nothing yet
EmptyFile == [exists |-> TRUE, header |-> <<>>, lines |-> <<>>]

to_csv(frame) ==
  [exists |-> TRUE,
   header |-> ColumnOrder,
   lines  |-> [i \in 1..Len(frame) |->
                 [j \in 1..Len(ColumnOrder) |->
                    FormatField(ColumnOrder[j], frame[i][ColumnOrder[j]])]]]

read_csv(f) ==
  [i \in 1..Len(f.lines) |->
     [c \in Range(f.header) |-> ParseField(c, f.lines[i][IndexOf(f.header, c)])]]

(***************************************************************************)
(* The synthetic table of get_data.                                        *)
(***************************************************************************)
Seeds == 0..MaxSeed

\* np.random.randint(lo, hi, 500)[i]: a value of lo..hi-1.  The generator is
\* unseeded; the model lets it be any of the streams of Seeds, stream `seed`
\* giving draw number i of call number k the value below.
randint(seed, k, i, lo, hi) ==
  lo + ((i * (2 * k + 3) + (i \div 7) * (k + 5) + ((i * i) % 11)
           + seed * (i + k + 1)) % (hi - lo))

GeneratedRow(seed, i) ==
  [order_id      |-> FirstOrderId + i,
   user_id       |-> randint(seed, 1, i, 1, 100),
   product_id    |-> randint(seed, 2, i, 100, 120),
   product_name  |-> ProductNameOf[randint(seed, 3, i, 1, 11)],
   category      |-> CategoryList[randint(seed, 4, i, 0, 4) + 1],
   price         |-> randint(seed, 5, i, 50, 500),
   quantity      |-> randint(seed, 6, i, 1, 5),
   \* pd.date_range(start="2024-01-01", periods=500, freq="h")
   order_date    |-> i,
   rating        |-> randint(seed, 7, i, 1, 6),
   is_repeating_customer |-> (randint(seed, 8, i, 0, 2) = 1)]

\* the frame one row short
GeneratedFrameShort(seed) == [n \in 1..(NumRows - 1) |-> GeneratedRow(seed, n - 1)]

\* pd.DataFrame(data): row i+1 of the frame is element i of every column
GeneratedFrame(seed) == [n \in 1..NumRows |-> GeneratedRow(seed, n - 1)]

(***************************************************************************)
(* Dataset files that may be present before the first run: up to           *)
(* MaxFileRows of the three rows of the worked scenario (two days, two     *)
(* categories, a repeated order_id, two products of equal revenue), in any *)
(* order.                                                                  *)
(***************************************************************************)
FileRows ==
  { [order_id |-> 1, user_id |-> 7, product_id |-> 101, product_name |-> "Product 1",
     category |-> "Electronics", price |-> 100, quantity |-> 2, order_date |-> 9,
     rating |-> 5, is_repeating_customer |-> TRUE],
    [order_id |-> 2, user_id |-> 8, product_id |-> 102, product_name |-> "Product 2",
     category |-> "Fashion", price |-> 50, quantity |-> 1, order_date |-> 33,
     rating |-> 4, is_repeating_customer |-> FALSE],
    [order_id |-> 1, user_id |-> 7, product_id |-> 103, product_name |-> "Product 3",
     category |-> "Electronics", price |-> 200, quantity |-> 1, order_date |-> 38,
     rating |-> 3, is_repeating_customer |-> TRUE] }

FileFrames ==
  UNION {{t \in [1..n -> FileRows] : \A i, j \in 1..n : t[i] = t[j] => i = j}
           : n \in 1..MaxFileRows}

InitialFiles == {NoFile} \cup {to_csv(t) : t \in FileFrames}

(***************************************************************************)
(* The script after get_data: preprocessing, widgets, filter, aggregates.  *)
(***************************************************************************)
\* df_original["revenue"] = quantity * price; ["order_day"] = order_date.dt.date;
\* ["order_hour"] = order_date.dt.hour
Preprocess(frame) ==
  [i \in 1..Len(frame) |->
     [revenue    |-> frame[i].quantity * frame[i].price,
      order_day  |-> frame[i].order_date \div HoursPerDay,
      order_hour |-> frame[i].order_date % HoursPerDay] @@ frame[i]]

Column(frame, col) == {frame[i][col] : i \in 1..Len(frame)}

MinOf(S) == CHOOSE x \in S : \A y \in S : x <= y
MaxOf(S) == CHOOSE x \in S : \A y \in S : y <= x

\* df_original["order_date"].min().date(), .max().date()
MinDate(frame) == MinOf(Column(frame, "order_date")) \div HoursPerDay
MaxDate(frame) == MaxOf(Column(frame, "order_date")) \div HoursPerDay

\* the date widget defaulting to the first day alone
DateInputFirstDay(w, lo, hi) == IF w.dates_set THEN w.dates ELSE <<lo, lo>>

\* st.sidebar.date_input(value=(min_date, max_date), ...): the user's choice
\* once there is one, the default before
date_input(w, lo, hi) == IF w.dates_set THEN w.dates ELSE <<lo, hi>>

\* st.sidebar.multiselect(options=categories, default=categories)
multiselect(w, options) == IF w.cats_set THEN w.cats ELSE options

\* the days the user may pick: the widget allows min_value..max_value
DayPicks(lo, hi) == {d \in lo..hi : d - lo <= MaxPickOffset \/ d = hi}

\* the filter with the end day left out
ApplyFiltersEndExclusive(frame, s, e, cats) ==
  SelectSeq(frame, LAMBDA r : r.order_day >= s /\ r.order_day < e /\ r.category \in cats)

\* df_original[(order_day >= start_date) & (order_day <= end_date)
\*             & category.isin(selected_categories)]
ApplyFilters(frame, s, e, cats) ==
  SelectSeq(frame, LAMBDA r : r.order_day >= s /\ r.order_day <= e /\ r.category \in cats)

\* the guard of lines 90-92 left out
IsEmptyNever(frame) == FALSE

\* df.empty
IsEmpty(frame) == Len(frame) = 0

\* the sum of frame[lo..hi][col], by halves
RECURSIVE SumRange(_, _, _, _)
SumRange(frame, col, lo, hi) ==
  IF lo > hi THEN 0
  ELSE IF lo = hi THEN frame[lo][col]
  ELSE LET mid == (lo + hi) \div 2
       IN SumRange(frame, col, lo, mid) + SumRange(frame, col, mid + 1, hi)

\* Series.sum()
SumOf(frame, col) == SumRange(frame, col, 1, Len(frame))

\* Series.nunique()
NUnique(frame, col) == Cardinality(Column(frame, col))

\* Series.mean(): the sum over the row count, kept as <<numerator, denominator>>
MeanOf(frame, col) == <<SumOf(frame, col), Len(frame)>>

\* the mean of a boolean column: the count of True over the row count
MeanOfBool(frame, col) ==
  <<Len(SelectSeq(frame, LAMBDA r : r[col])), Len(frame)>>

\* the integers of S as an ascending sequence
Ascending(S) ==
  IF S = {} THEN <<>>
  ELSE LET lo == MinOf(S)
           hi == MaxOf(S)
       IN SelectSeq([k \in 1..(hi - lo + 1) |-> lo + k - 1], LAMBDA x : x \in S)

\* the group keys of a groupby, sorted: integers ascending, the strings of the
\* model in lexicographic order
GroupKeys(frame, key) ==
  CASE key = "product_name" ->
         SelectSeq(SortedProductNames, LAMBDA x : x \in Column(frame, key))
    [] key = "category" ->
         SelectSeq(SortedCategories, LAMBDA x : x \in Column(frame, key))
    [] OTHER -> Ascending(Column(frame, key))

\* df.groupby(key, as_index=False)[col].sum(): one row per key that occurs
GroupSum(frame, key, col) ==
  LET keys == GroupKeys(frame, key) IN
    [g \in 1..Len(keys) |->
       [k \in {key, col} |->
          IF k = key THEN keys[g]
          ELSE SumOf(SelectSeq(frame, LAMBDA r : r[key] = keys[g]), col)]]

\* df.groupby(key, as_index=False)[col].count(): one row per key that occurs
GroupCount(frame, key, col) ==
  LET keys == GroupKeys(frame, key) IN
    [g \in 1..Len(keys) |->
       [k \in {key, col} |->
          IF k = key THEN keys[g]
          ELSE Len(SelectSeq(frame, LAMBDA r : r[key] = keys[g]))]]

\* .sort_values(col, ascending=False): every order of the rows that is
\* descending in col (the default sort is not stable, equal rows may come in
\* any order)
RECURSIVE DescendingOrders(_, _, _)
DescendingOrders(frame, col, I) ==
  IF I = {} THEN {<<>>}
  ELSE LET m == MaxOf({frame[i][col] : i \in I}) IN
       UNION {{<<frame[i]>> \o rest : rest \in DescendingOrders(frame, col, I \ {i})}
                : i \in {j \in I : frame[j][col] = m}}

\* the sort left out: the rows stay in group order
SortOmitted(frame, col) == {frame}

sort_values_desc(frame, col) == DescendingOrders(frame, col, 1..Len(frame))

\* .head(n)
head(frame, n) == SubSeq(frame, 1, IF Len(frame) < n THEN Len(frame) ELSE n)

(***************************************************************************)
(* State.                                                                  *)
(***************************************************************************)
VARIABLES
  \* the file system
  folder_exists,      \* os.path.exists("data")
  files,              \* path -> file, for the two candidate paths
  \* per process
  pc,                 \* where the script run of the process stands
  cache,              \* the st.cache_data entry of get_data()
  path_idx,           \* get_data: position of `for path in possible_paths`
  data_df,            \* get_data: the frame it built or read (its `df`)
  df_original,        \* the script's df_original
  \* the script run of session Main, after get_data
  widgets,            \* what the user last set in the two sidebar widgets
  min_date, max_date, categories,
  start_date, end_date, selected_categories,
  df,                 \* the filtered frame
  warning,            \* st.warning("No data available ...") was shown
  kpis,               \* total_rev, total_orders, avg_val, repeat_rate
  daily, cat_rev, top, hourly,
  \* history, read by the properties only
  body_runs,          \* how often the body of get_data ran, per process
  first_ret,          \* what the first call of get_data returned, per process
  writers,            \* the processes that wrote the dataset file
  fs0                 \* the file system before the first run

fs_vars    == <<folder_exists, files>>
proc_vars  == <<pc, cache, path_idx, data_df, df_original>>
input_vars == <<widgets>>
run_vars   == <<min_date, max_date, categories, start_date, end_date,
                selected_categories, df, warning, kpis, daily, cat_rev, top, hourly>>
hist_vars  == <<body_runs, first_ret, writers, fs0>>
vars == <<fs_vars, proc_vars, input_vars, run_vars, hist_vars>>

NoDay == 0 - 1
NoFrame == <<>>
NoEntry == [set |-> FALSE, value |-> NoFrame]
NoKpis == [computed |-> FALSE, total_rev |-> 0, total_orders |-> 0,
           avg_val |-> <<>>, repeat_rate |-> <<>>]
Untouched == [dates_set |-> FALSE, dates |-> <<>>, cats_set |-> FALSE, cats |-> {}]

\* a fresh script run: no name of the script is bound yet
FreshRun ==
  /\ min_date' = NoDay /\ max_date' = NoDay /\ categories' = {}
  /\ start_date' = NoDay /\ end_date' = NoDay /\ selected_categories' = {}
  /\ df' = NoFrame /\ warning' = FALSE /\ kpis' = NoKpis
  /\ daily' = <<>> /\ cat_rev' = <<>> /\ top' = <<>> /\ hourly' = <<>>

Init ==
  /\ files \in [Range(possible_paths) -> InitialFiles]
  /\ folder_exists \in BOOLEAN
  \* a file under data/ implies the directory
  /\ files[target_path].exists => folder_exists
  /\ pc = [p \in Procs |-> "call"]
  /\ cache = [p \in Procs |-> NoEntry]
  /\ path_idx = [p \in Procs |-> 1]
  /\ data_df = [p \in Procs |-> NoFrame]
  /\ df_original = [p \in Procs |-> NoFrame]
  /\ widgets = Untouched
  /\ min_date = NoDay /\ max_date = NoDay /\ categories = {}
  /\ start_date = NoDay /\ end_date = NoDay /\ selected_categories = {}
  /\ df = NoFrame /\ warning = FALSE /\ kpis = NoKpis
  /\ daily = <<>> /\ cat_rev = <<>> /\ top = <<>> /\ hourly = <<>>
  /\ body_runs = [p \in Procs |-> 0]
  /\ first_ret = [p \in Procs |-> NoEntry]
  /\ writers = {}
  /\ fs0 = [folder_exists |-> folder_exists, files |-> files]

(***************************************************************************)
(* get_data, under @st.cache_data.                                         *)
(***************************************************************************)
\* get_data without @st.cache_data
CacheNeverHits(p) == FALSE

\* st.cache_data: the call is answered from the process's store once the
\* function has returned a value in this process
CacheHit(p) == cache[p].set

\* df_original = get_data(): a hit hands out a copy of the stored frame, a
\* miss runs the body
Call(p) ==
  /\ pc[p] = "call"
  /\ IF CacheHit(p)
       THEN /\ df_original' = [df_original EXCEPT ![p] = cache[p].value]
            /\ pc' = [pc EXCEPT ![p] = "loaded"]
            /\ UNCHANGED <<path_idx, body_runs>>
       ELSE /\ body_runs[p] < MaxBodyRuns
            /\ pc' = [pc EXCEPT ![p] = "probe"]
            /\ path_idx' = [path_idx EXCEPT ![p] = 1]
            /\ body_runs' = [body_runs EXCEPT ![p] = @ + 1]
            /\ UNCHANGED df_original
  /\ UNCHANGED <<fs_vars, cache, data_df, input_vars, run_vars, first_ret, writers, fs0>>

\* one turn of `for path in possible_paths`: return the parsed file if it
\* exists (pd.read_csv raises EmptyDataError on a file with no header line)
Probe(p) ==
  /\ pc[p] = "probe"
  /\ LET f == files[possible_paths[path_idx[p]]] IN
       IF f.exists
         THEN IF f.header = <<>>
                THEN /\ pc' = [pc EXCEPT ![p] = "error"]
                     /\ UNCHANGED <<data_df, path_idx>>
                ELSE /\ data_df' = [data_df EXCEPT ![p] = read_csv(f)]
                     /\ pc' = [pc EXCEPT ![p] = "return"]
                     /\ UNCHANGED path_idx
         ELSE IF path_idx[p] < Len(possible_paths)
                THEN /\ path_idx' = [path_idx EXCEPT ![p] = @ + 1]
                     /\ UNCHANGED <<pc, data_df>>
                ELSE /\ pc' = [pc EXCEPT ![p] = "check_folder"]
                     /\ UNCHANGED <<path_idx, data_df>>
  /\ UNCHANGED <<fs_vars, cache, df_original, input_vars, run_vars, hist_vars>>

\* if not os.path.exists(folder):
CheckFolder(p) ==
  /\ pc[p] = "check_folder"
  /\ pc' = [pc EXCEPT ![p] = IF folder_exists THEN "generate" ELSE "makedirs"]
  /\ UNCHANGED <<fs_vars, cache, path_idx, data_df, df_original, input_vars,
                 run_vars, hist_vars>>

\* os.makedirs(folder) raises FileExistsError when the directory is there
MakeDirs(p) ==
  /\ pc[p] = "makedirs"
  /\ IF folder_exists
       THEN /\ pc' = [pc EXCEPT ![p] = "error"]
            /\ UNCHANGED folder_exists
       ELSE /\ folder_exists' = TRUE
            /\ pc' = [pc EXCEPT ![p] = "generate"]
  /\ UNCHANGED <<files, cache, path_idx, data_df, df_original, input_vars,
                 run_vars, hist_vars>>

\* data = {...}; df = pd.DataFrame(data)
Generate(p) ==
  /\ pc[p] = "generate"
  /\ \E seed \in Seeds : data_df' = [data_df EXCEPT ![p] = GeneratedFrame(seed)]
  /\ pc' = [pc EXCEPT ![p] = "open"]
  /\ UNCHANGED <<fs_vars, cache, path_idx, df_original, input_vars, run_vars,
                 hist_vars>>

\* df.to_csv(target_path, index=False), first half: the file is opened for
\* writing, which creates it or empties it
OpenTarget(p) ==
  /\ pc[p] = "open"
  /\ files' = [files EXCEPT ![target_path] = EmptyFile]
  /\ pc' = [pc EXCEPT ![p] = "write"]
  /\ UNCHANGED <<folder_exists, cache, path_idx, data_df, df_original, input_vars,
                 run_vars, hist_vars>>

\* df.to_csv(target_path, index=False), second half: the rows are written
WriteTarget(p) ==
  /\ pc[p] = "write"
  /\ files' = [files EXCEPT ![target_path] = to_csv(data_df[p])]
  /\ writers' = writers \cup {p}
  /\ pc' = [pc EXCEPT ![p] = "return"]
  /\ UNCHANGED <<folder_exists, cache, path_idx, data_df, df_original, input_vars,
                 run_vars, body_runs, first_ret, fs0>>

\* return df: st.cache_data stores the value, the script binds df_original,
\* the local df of get_data is gone
Return(p) ==
  /\ pc[p] = "return"
  /\ cache' = [cache EXCEPT ![p] = [set |-> TRUE, value |-> data_df[p]]]
  /\ df_original' = [df_original EXCEPT ![p] = data_df[p]]
  /\ first_ret' = [first_ret EXCEPT ![p] =
                     IF @.set THEN @ ELSE [set |-> TRUE, value |-> data_df[p]]]
  /\ data_df' = [data_df EXCEPT ![p] = NoFrame]
  /\ pc' = [pc EXCEPT ![p] = "loaded"]
  /\ UNCHANGED <<fs_vars, path_idx, input_vars, run_vars, body_runs, writers, fs0>>

get_data(p) ==
  \/ Call(p) \/ Probe(p) \/ CheckFolder(p) \/ MakeDirs(p)
  \/ Generate(p) \/ OpenTarget(p) \/ WriteTarget(p) \/ Return(p)

\* the script is run again in process p (a further interaction, a reload)
RunAgain(p) ==
  /\ pc[p] \in {"loaded", "error"}
  /\ pc' = [pc EXCEPT ![p] = "call"]
  /\ df_original' = [df_original EXCEPT ![p] = NoFrame]
  /\ UNCHANGED <<fs_vars, cache, path_idx, data_df, input_vars, run_vars, hist_vars>>

\* the load step alone, in every process
NextLoad == \E p \in Procs : get_data(p) \/ RunAgain(p)

SpecLoad == Init /\ [][NextLoad]_vars

(***************************************************************************)
(* The rest of the script, for session Main.                               *)
(***************************************************************************)
\* lines 54-56: the three derived columns are added to df_original
Preprocessing ==
  /\ pc[Main] = "loaded"
  /\ df_original' = [df_original EXCEPT ![Main] = Preprocess(@)]
  /\ pc' = [pc EXCEPT ![Main] = "sidebar"]
  /\ UNCHANGED <<fs_vars, cache, path_idx, data_df, input_vars, run_vars, hist_vars>>

\* lines 62-78: the two sidebar widgets.  Unpacking the value of date_input
\* into start_date, end_date raises ValueError unless it has two elements.
Sidebar ==
  /\ pc[Main] = "sidebar"
  /\ min_date' = MinDate(df_original[Main])
  /\ max_date' = MaxDate(df_original[Main])
  /\ LET value == date_input(widgets, min_date', max_date') IN
       IF Len(value) # 2
         THEN /\ pc' = [pc EXCEPT ![Main] = "error"]
              /\ UNCHANGED <<start_date, end_date, categories, selected_categories>>
         ELSE /\ start_date' = value[1]
              /\ end_date' = value[2]
              /\ categories' = Column(df_original[Main], "category")
              /\ selected_categories' = multiselect(widgets, categories')
              /\ pc' = [pc EXCEPT ![Main] = "filter"]
  /\ UNCHANGED <<fs_vars, cache, path_idx, data_df, df_original, input_vars,
                 df, warning, kpis, daily, cat_rev, top, hourly, hist_vars>>

\* the filter assigned back to df_original
FilteringInPlace ==
  /\ pc[Main] = "filter"
  /\ df' = ApplyFilters(df_original[Main], start_date, end_date, selected_categories)
  /\ df_original' = [df_original EXCEPT ![Main] = df']
  /\ pc' = [pc EXCEPT ![Main] = "guard"]
  /\ UNCHANGED <<fs_vars, cache, path_idx, data_df, input_vars,
                 min_date, max_date, categories, start_date, end_date,
                 selected_categories, warning, kpis, daily, cat_rev, top, hourly,
                 hist_vars>>

\* lines 81-85
Filtering ==
  /\ pc[Main] = "filter"
  /\ df' = ApplyFilters(df_original[Main], start_date, end_date, selected_categories)
  /\ pc' = [pc EXCEPT ![Main] = "guard"]
  /\ UNCHANGED <<fs_vars, cache, path_idx, data_df, df_original, input_vars,
                 min_date, max_date, categories, start_date, end_date,
                 selected_categories, warning, kpis, daily, cat_rev, top, hourly,
                 hist_vars>>

\* lines 90-92: if df.empty: st.warning(...); st.stop()
EmptyGuard ==
  /\ pc[Main] = "guard"
  /\ IF IsEmpty(df)
       THEN /\ warning' = TRUE
            /\ pc' = [pc EXCEPT ![Main] = "stopped"]
       ELSE /\ pc' = [pc EXCEPT ![Main] = "kpis"]
            /\ UNCHANGED warning
  /\ UNCHANGED <<fs_vars, cache, path_idx, data_df, df_original, input_vars,
                 min_date, max_date, categories, start_date, end_date,
                 selected_categories, df, kpis, daily, cat_rev, top, hourly, hist_vars>>

\* lines 95-98
KPIs ==
  /\ pc[Main] = "kpis"
  /\ kpis' = [computed     |-> TRUE,
              total_rev    |-> SumOf(df, "revenue"),
              total_orders |-> NUnique(df, "order_id"),
              avg_val      |-> MeanOf(df, "revenue"),
              repeat_rate  |-> LET m == MeanOfBool(df, "is_repeating_customer")
                               IN <<m[1] * 100, m[2]>>]
  /\ pc' = [pc EXCEPT ![Main] = "charts"]
  /\ UNCHANGED <<fs_vars, cache, path_idx, data_df, df_original, input_vars,
                 min_date, max_date, categories, start_date, end_date,
                 selected_categories, df, warning, daily, cat_rev, top, hourly,
                 hist_vars>>

\* lines 113, 125, 137, 148: the four grouped tables
Charts ==
  /\ pc[Main] = "charts"
  /\ daily' = GroupSum(df, "order_day", "revenue")
  /\ cat_rev' = GroupSum(df, "category", "revenue")
  /\ \E sorted \in sort_values_desc(GroupSum(df, "product_name", "revenue"), "revenue") :
       top' = head(sorted, TopN)
  /\ hourly' = GroupCount(df, "order_hour", "order_id")
  /\ pc' = [pc EXCEPT ![Main] = "done"]
  /\ UNCHANGED <<fs_vars, cache, path_idx, data_df, df_original, input_vars,
                 min_date, max_date, categories, start_date, end_date,
                 selected_categories, df, warning, kpis, hist_vars>>

\* a script run of Main is over: it ran to the end, stopped, or raised
RunOver == pc[Main] \in {"done", "stopped", "error"}

\* Streamlit runs the script again from the top, in a fresh namespace
Restart ==
  /\ pc' = [pc EXCEPT ![Main] = "call"]
  /\ df_original' = [df_original EXCEPT ![Main] = NoFrame]
  /\ FreshRun
  /\ UNCHANGED <<fs_vars, cache, path_idx, data_df, hist_vars>>

\* the user picks a date range in the date widget (one day while the range is
\* half picked, two once it is picked)
ChangeDates ==
  /\ RunOver
  /\ min_date # NoDay
  /\ \E picked \in UNION {[1..n -> DayPicks(min_date, max_date)] : n \in 1..2} :
       widgets' = [widgets EXCEPT !.dates_set = TRUE, !.dates = picked]
  /\ Restart

\* the user changes the selection of the category widget
ChangeCategories ==
  /\ RunOver
  /\ categories # {}
  /\ \E picked \in SUBSET categories :
       widgets' = [widgets EXCEPT !.cats_set = TRUE, !.cats = picked]
  /\ Restart

\* the user reruns the script without touching a widget
Rerun ==
  /\ RunOver
  /\ UNCHANGED widgets
  /\ Restart

Next ==
  \/ get_data(Main)
  \/ Preprocessing \/ Sidebar \/ Filtering \/ EmptyGuard \/ KPIs \/ Charts
  \/ ChangeDates \/ ChangeCategories \/ Rerun

\* one session, every step of its script runs
Spec == Init /\ [][Next]_vars

(***************************************************************************)
(* Properties.                                                             *)
(***************************************************************************)
\* the script of Main is past the filter of lines 81-85
Filtered == pc[Main] \in {"guard", "kpis", "charts", "done", "stopped"}

\* the script of Main is past the guard of lines 90-92
Guarded == pc[Main] \in {"kpis", "charts", "done", "stopped"}

\* the dataset file was at no candidate path before the first run
NoDatasetAtStart == \A path \in Range(possible_paths) : ~fs0.files[path].exists

\* C1: the filtered frame holds exactly the rows of the preprocessed frame
\* with start_date <= order_day <= end_date and category among the selected
\* ones, in their order: every kept row satisfies both, no dropped row does.
C1_FilterExact ==
  Filtered =>
    LET full == df_original[Main]
        both(r) == /\ start_date <= r.order_day
                   /\ r.order_day <= end_date
                   /\ r.category \in selected_categories
        kept == SelectSeq([k \in 1..Len(full) |-> k], LAMBDA k : both(full[k]))
    IN /\ Len(df) = Len(kept)
       /\ \A j \in 1..Len(kept) : df[j] = full[kept[j]]
       /\ \A j \in 1..Len(df) : both(df[j])

\* C1 witness: a filter that kept some rows and dropped others, on each count
C1_Witness ==
  /\ Filtered
  /\ Len(df) > 0
  /\ \E k \in 1..Len(df_original[Main]) : df_original[Main][k].order_day > end_date
  /\ \E k \in 1..Len(df_original[Main]) : df_original[Main][k].order_day < start_date
  /\ \E k \in 1..Len(df_original[Main]) :
       df_original[Main][k].category \notin selected_categories

\* C2: when the filter yields no row the run warns and stops without
\* computing a KPI or a grouped table, so no mean is ever taken over zero rows.
C2_EmptyStops ==
  /\ (Guarded /\ Len(df) = 0) =>
        /\ pc[Main] = "stopped"
        /\ warning
        /\ ~kpis.computed
        /\ daily = <<>> /\ cat_rev = <<>> /\ top = <<>> /\ hourly = <<>>
  /\ kpis.computed => (kpis.avg_val[2] > 0 /\ kpis.repeat_rate[2] > 0)

\* C2 witness: the run stopped on an empty category selection
C2_Witness ==
  /\ pc[Main] = "stopped"
  /\ widgets.cats_set /\ selected_categories = {}
  /\ start_date <= end_date
  /\ Len(df) = 0 /\ warning

\* C3: in one process the body of get_data runs at most once, and every call
\* returns the table the first call returned.
C3_CachedOnce ==
  /\ body_runs[Main] <= 1
  /\ pc[Main] = "loaded" => (first_ret[Main].set /\ df_original[Main] = first_ret[Main].value)

\* C3 witness: a later run (the user has changed both widgets since the
\* first) got its table from get_data, whose body ran once
C3_Witness ==
  /\ pc[Main] = "loaded"
  /\ widgets.dates_set /\ widgets.cats_set
  /\ body_runs[Main] = 1

\* the ten columns of the dataset file
RequiredColumns ==
  {"order_id", "user_id", "product_id", "product_name", "category", "price",
   "quantity", "order_date", "rating", "is_repeating_customer"}

\* C4: with no dataset file and no data directory before the first run,
\* get_data leaves the directory, a file of 500 lines under the 10 column
\* names at data/ecommerce_with_repeating.csv, and returns 500 rows of
\* exactly these 10 columns.
C4_GeneratesDataset ==
  (NoDatasetAtStart /\ ~fs0.folder_exists /\ first_ret[Main].set) =>
    LET f == files["data/ecommerce_with_repeating.csv"]
        t == first_ret[Main].value
    IN /\ folder_exists
       /\ f.exists
       /\ Len(f.lines) = 500
       /\ Len(f.header) = 10 /\ Range(f.header) = RequiredColumns
       /\ \A i \in 1..Len(f.lines) : Len(f.lines[i]) = 10
       /\ Len(t) = 500
       /\ \A i \in 1..Len(t) : DOMAIN t[i] = RequiredColumns

\* C4 witness: get_data has returned after starting from an empty directory
C4_Witness ==
  /\ NoDatasetAtStart /\ ~fs0.folder_exists
  /\ first_ret[Main].set
  /\ pc[Main] = "loaded"
  /\ Main \in writers

\* C5: two sessions loading for the first time with no dataset file do not
\* race: at most one writes the file, and all hold the same table, the one
\* the file holds once nobody is writing it.
C5_NoLoadRace ==
  NoDatasetAtStart =>
    /\ Cardinality(writers) <= 1
    /\ \A p, q \in Procs :
         (cache[p].set /\ cache[q].set) => cache[p].value = cache[q].value
    /\ \A p \in Procs :
         (cache[p].set /\ files[target_path].header # <<>>
            /\ \A q \in Procs : pc[q] \notin {"open", "write"})
           => read_csv(files[target_path]) = cache[p].value

\* C6: after a run with a non-empty filtered frame the hourly table has 24
\* rows, one per hour 0..23, and its counts add up to the number of rows.
C6_HourlyComplete ==
  pc[Main] = "done" =>
    /\ Len(hourly) = 24
    /\ {hourly[i].order_hour : i \in 1..Len(hourly)} = 0..23
    /\ SumOf(hourly, "order_id") = Len(df)

\* what the code does keep of C6: one row per hour that occurs, counts adding up
HourlyOfPresentHours ==
  pc[Main] = "done" =>
    /\ {hourly[i].order_hour : i \in 1..Len(hourly)} = Column(df, "order_hour")
    /\ Len(hourly) = Cardinality(Column(df, "order_hour"))
    /\ SumOf(hourly, "order_id") = Len(df)

\* C7: the top-products table has at most 5 rows, in descending revenue, each
\* a product of the filtered frame with its summed revenue, and no product
\* left out has a larger summed revenue than a listed one.
C7_TopProducts ==
  pc[Main] = "done" =>
    LET revenue_of(name) ==
          SumOf(SelectSeq(df, LAMBDA r : r.product_name = name), "revenue")
        listed == {top[i].product_name : i \in 1..Len(top)}
    IN /\ Len(top) <= 5
       /\ \A i \in 1..(Len(top) - 1) : top[i].revenue >= top[i + 1].revenue
       /\ Cardinality(listed) = Len(top)
       /\ listed \subseteq Column(df, "product_name")
       /\ \A i \in 1..Len(top) : top[i].revenue = revenue_of(top[i].product_name)
       /\ \A name \in Column(df, "product_name") \ listed :
            \A i \in 1..Len(top) : revenue_of(name) <= top[i].revenue

\* C7 witness: five products listed, others left out
C7_Witness ==
  /\ pc[Main] = "done"
  /\ Len(top) = 5
  /\ Cardinality(Column(df, "product_name")) > 5
  /\ top[1].revenue > top[5].revenue

\* C8: once preprocessed, the full frame of a run is the table get_data first
\* returned plus the three derived columns, whatever the widgets were set to
\* and whichever of filter, guard, KPIs and grouped tables have run.
C8_FullFrameImmutable ==
  pc[Main] \in {"sidebar", "filter", "guard", "kpis", "charts", "done", "stopped"} =>
    LET full == df_original[Main]
        raw == first_ret[Main].value
    IN /\ Len(full) = Len(raw)
       /\ \A i \in 1..Len(full) :
            /\ \A c \in RequiredColumns : full[i][c] = raw[i][c]
            /\ full[i].revenue = raw[i].price * raw[i].quantity
            /\ full[i].order_day = raw[i].order_date \div 24
            /\ full[i].order_hour = raw[i].order_date % 24

\* C8 witness: a complete pass over a narrowed selection, after both widgets
\* were changed
C8_Witness ==
  /\ pc[Main] = "done"
  /\ widgets.dates_set /\ widgets.cats_set
  /\ Len(df) < Len(df_original[Main])
  /\ kpis.computed

\* C9: with the widgets untouched the date range is the first to the last day
\* of the data and every category present is selected; and whenever these are
\* the selections the filtered frame is the whole preprocessed frame.
C9_DefaultKeepsAll ==
  Filtered =>
    /\ (~widgets.dates_set /\ ~widgets.cats_set) =>
          /\ start_date = min_date /\ end_date = max_date
          /\ selected_categories = categories
    /\ (start_date = min_date /\ end_date = max_date /\ selected_categories = categories)
          => df = df_original[Main]

\* C9 witness: the first run, over data of several days and categories
C9_Witness ==
  /\ Filtered
  /\ ~widgets.dates_set /\ ~widgets.cats_set
  /\ min_date < max_date
  /\ Cardinality(categories) > 1
  /\ df = df_original[Main]

\* C10: the filter is never applied to a date range whose start is after its
\* end: such a range is rejected or clamped first.
C10_RangeValidated == Filtered => start_date <= end_date

====
